---- MODULE Spec2Model ----
(***************************************************************************)
(* Queue workers of spendsphere-ml: the OCR worker                         *)
(* (src/workers/ocr_worker.py) and the advice worker                       *)
(* (src/workers/advice_worker.py), one worker process consuming its task   *)
(* queue through a blocking channel with prefetch 1.                       *)
(*                                                                         *)
(* JSON values are tagged pairs <<tag, value>>, so that Python's           *)
(* isinstance tests, truthiness and AttributeError/TypeError/KeyError      *)
(* outcomes can be computed from the value.                                *)
(***************************************************************************)
EXTENDS Integers, Sequences, FiniteSets, TLC

\* ------------------------------------------------------------------ bounds
MaxMsgs == 2          \* messages the producer ever puts on the task queue
MaxDeliveries == 2    \* deliveries (delivery tags) of one channel
NumWorkers == 2       \* worker processes consuming the same task queue
MaxItems == 2         \* items in one backend response

\* ------------------------------------------------------------ JSON values
JNull == <<"null", 0>>
JStr(s) == <<"str", s>>
JNum(n) == <<"num", n>>
JList(q) == <<"list", q>>
JDict(f) == <<"dict", f>>

Tag(j) == j[1]
Val(j) == j[2]
IsDict(j) == Tag(j) = "dict"
IsList(j) == Tag(j) = "list"
IsStr(j) == Tag(j) = "str"
EmptyDict == JDict([k \in {} |-> JNull])

\* dict.get(key, default)
DictGet(d, k, default) == IF k \in DOMAIN Val(d) THEN Val(d)[k] ELSE default
\* d[key] = value
DictSet(d, k, x) ==
    JDict([f \in (DOMAIN Val(d)) \cup {k} |-> IF f = k THEN x ELSE Val(d)[f]])
\* Python truthiness of a JSON value ("not x" is ~Truthy(x))
Truthy(j) ==
    CASE Tag(j) = "null" -> FALSE
      [] Tag(j) = "str"  -> Val(j) # ""
      [] Tag(j) = "num"  -> Val(j) # 0
      [] Tag(j) = "list" -> Len(Val(j)) > 0
      [] Tag(j) = "dict" -> DOMAIN Val(j) # {}
\* len(x): defined for str (not modelled beyond ""), list and dict
HasLen(j) == Tag(j) \in {"list", "dict"}
PyLen(j) == IF IsList(j) THEN Len(Val(j)) ELSE Cardinality(DOMAIN Val(j))

\* the outcome of a call: a value, or the class of the exception raised
Ok(x) == <<"ok", x>>
Raise(e) == <<"raise", e>>
IsOk(r) == r[1] = "ok"

\* ------------------------------------------------- ocr_worker.py, helpers
OCR_QUEUE == "ocr_tasks"
OCR_RESULTS_QUEUE == "ocr_results"
ADVICE_QUEUE == "advice_tasks"
ADVICE_RESULTS_QUEUE == "advice_results"

EnumPath == <<"properties", "items", "items", "properties", "Category">>

\* schema[p1][p2]...[pn] can be evaluated: every step is a dict holding the key
RECURSIVE CanIndex(_, _)
CanIndex(j, path) ==
    IF path = <<>> THEN TRUE
    ELSE /\ IsDict(j)
         /\ Head(path) \in DOMAIN Val(j)
         /\ CanIndex(Val(j)[Head(path)], Tail(path))

RECURSIVE GetPath(_, _)
GetPath(j, path) ==
    IF path = <<>> THEN j ELSE GetPath(Val(j)[Head(path)], Tail(path))

\* schema[p1]...[pn][key] = x, the dicts on the way being updated in place
RECURSIVE SetPath(_, _, _, _)
SetPath(j, path, key, x) ==
    IF path = <<>> THEN DictSet(j, key, x)
    ELSE DictSet(j, Head(path), SetPath(Val(j)[Head(path)], Tail(path), key, x))

\* a mutant: the enum is appended to the template's enum instead of replacing it
LoadSchemaAppendsEnum(template, categories) ==
    IF ~CanIndex(template, EnumPath) \/ ~IsDict(GetPath(template, EnumPath))
    THEN Raise("KeyError")
    ELSE LET old == DictGet(GetPath(template, EnumPath), "enum", JList(<<>>))
         IN Ok(SetPath(template, EnumPath, "enum",
                       JList((IF IsList(old) THEN Val(old) ELSE <<>>) \o Val(categories))))

\* load_schema_with_enum: the template read from the file, with
\* properties.items.items.properties.Category.enum set to the categories
load_schema_with_enum(template, categories) ==
    IF ~CanIndex(template, EnumPath) THEN Raise("KeyError")
    ELSE IF ~IsDict(GetPath(template, EnumPath)) THEN Raise("TypeError")
    ELSE Ok(SetPath(template, EnumPath, "enum", categories))

\* categorize_items, lines 58-64: the schema read back from schema_path, with the
\* enum injected again when the schema has an items property holding a Category
categorize_schema(schema, categories) ==
    IF ~IsDict(schema) \/ "properties" \notin DOMAIN Val(schema) THEN Raise("KeyError")
    ELSE LET props == Val(schema)["properties"] IN
      IF ~HasLen(props) /\ ~IsStr(props) THEN Raise("TypeError")
      ELSE IF ~(IsDict(props) /\ "items" \in DOMAIN Val(props)) THEN Ok(schema)
      ELSE IF ~CanIndex(props, <<"items", "items", "properties">>) THEN Raise("KeyError")
      ELSE LET item_props == GetPath(props, <<"items", "items", "properties">>) IN
        IF ~(IsDict(item_props) /\ "Category" \in DOMAIN Val(item_props)) THEN Ok(schema)
        ELSE IF ~IsDict(Val(item_props)["Category"]) THEN Raise("TypeError")
        ELSE Ok(SetPath(schema, EnumPath, "enum", categories))

\* one merged item: {**ocr_item, "Category": cat_item.get("Category", "Unknown")}
MergeItem(ocr_item, cat_item) ==
    DictSet(ocr_item, "Category", DictGet(cat_item, "Category", JStr("Unknown")))

\* a mutant: zip without the length check, truncating to the shorter input
MergeTruncates(ocr_result, category_result) ==
    IF ~IsDict(ocr_result) \/ ~IsDict(category_result) THEN Raise("AttributeError")
    ELSE LET ocr_items == DictGet(ocr_result, "items", JList(<<>>))
             cat_items == DictGet(category_result, "items", JList(<<>>))
             n == IF PyLen(ocr_items) < PyLen(cat_items)
                  THEN PyLen(ocr_items) ELSE PyLen(cat_items)
         IN Ok(JDict([items |-> JList([i \in 1..n |->
                        MergeItem(Val(ocr_items)[i], Val(cat_items)[i])])]))

\* a mutant: an item whose categorization has no Category field is left out
MergeDropsUncategorized(ocr_result, category_result) ==
    IF ~IsDict(ocr_result) \/ ~IsDict(category_result) THEN Raise("AttributeError")
    ELSE LET ocr_items == DictGet(ocr_result, "items", JList(<<>>))
             cat_items == DictGet(category_result, "items", JList(<<>>))
         IN IF PyLen(ocr_items) # PyLen(cat_items) THEN Raise("ValueError")
            ELSE LET keep == SelectSeq(Val(cat_items),
                                       LAMBDA c : IsDict(c) /\ "Category" \in DOMAIN Val(c))
                 IN Ok(JDict([items |-> JList([i \in 1..Len(keep) |->
                        MergeItem(Val(ocr_items)[i], keep[i])])]))

\* a mutant: the category is given only to items that have none yet
MergeKeepsCategory(ocr_result, category_result) ==
    IF ~IsDict(ocr_result) \/ ~IsDict(category_result) THEN Raise("AttributeError")
    ELSE LET ocr_items == DictGet(ocr_result, "items", JList(<<>>))
             cat_items == DictGet(category_result, "items", JList(<<>>))
         IN IF PyLen(ocr_items) # PyLen(cat_items) THEN Raise("ValueError")
            ELSE Ok(JDict([items |-> JList([i \in 1..PyLen(ocr_items) |->
                   IF "Category" \in DOMAIN Val(Val(ocr_items)[i])
                   THEN Val(ocr_items)[i]
                   ELSE MergeItem(Val(ocr_items)[i], Val(cat_items)[i])])]))

\* a mutant: the items key is required, ocr_result["items"]
MergeRequiresItems(ocr_result, category_result) ==
    IF ~IsDict(ocr_result) \/ ~IsDict(category_result) THEN Raise("AttributeError")
    ELSE IF "items" \notin DOMAIN Val(ocr_result) \/ "items" \notin DOMAIN Val(category_result)
    THEN Raise("KeyError")
    ELSE LET ocr_items == Val(ocr_result)["items"]
             cat_items == Val(category_result)["items"]
         IN IF ~IsList(ocr_items) \/ ~IsList(cat_items) THEN Raise("TypeError")
            ELSE IF PyLen(ocr_items) # PyLen(cat_items) THEN Raise("ValueError")
            ELSE IF \E i \in 1..PyLen(ocr_items) :
                       ~IsDict(Val(ocr_items)[i]) \/ ~IsDict(Val(cat_items)[i])
                 THEN Raise("TypeError")
            ELSE Ok(JDict([items |-> JList([i \in 1..PyLen(ocr_items) |->
                        MergeItem(Val(ocr_items)[i], Val(cat_items)[i])])]))

\* merge_categories
merge_categories(ocr_result, category_result) ==
    IF ~IsDict(ocr_result) \/ ~IsDict(category_result) THEN Raise("AttributeError")
    ELSE LET ocr_items == DictGet(ocr_result, "items", JList(<<>>))
             cat_items == DictGet(category_result, "items", JList(<<>>))
         IN IF ~HasLen(ocr_items) \/ ~HasLen(cat_items) THEN Raise("TypeError")
            ELSE IF PyLen(ocr_items) # PyLen(cat_items) THEN Raise("ValueError")
            ELSE IF ~IsList(ocr_items) \/ ~IsList(cat_items) THEN Raise("TypeError")
            ELSE IF \E i \in 1..PyLen(ocr_items) : ~IsDict(Val(ocr_items)[i])
                 THEN Raise("TypeError")
            ELSE IF \E i \in 1..PyLen(cat_items) : ~IsDict(Val(cat_items)[i])
                 THEN Raise("AttributeError")
            ELSE Ok(JDict([items |-> JList([i \in 1..PyLen(ocr_items) |->
                        MergeItem(Val(ocr_items)[i], Val(cat_items)[i])])]))

\* --------------------------------------------------------- the environment
\* message bodies as the producer puts them on the wire
BadBytes == <<"raw", "invalid-utf8">>
NotJson == <<"raw", "not-json">>
JsonBody(j) == <<"json", j>>

\* json.loads(body.decode())
Decode(body) ==
    IF body[1] = "json" THEN Ok(body[2])
    ELSE IF body[2] = "invalid-utf8" THEN Raise("UnicodeDecodeError")
    ELSE Raise("JSONDecodeError")

T1 == JStr("T1")
Img == JStr("aW1n")
Cats2 == JList(<<JStr("Dining"), JStr("Other")>>)

OcrBodies ==
    { BadBytes, NotJson, JsonBody(JList(<<>>)), JsonBody(EmptyDict),
      JsonBody(JDict([task_id |-> T1, image_b64 |-> JStr("")])),
      JsonBody(JDict([task_id |-> T1, image_b64 |-> Img])),
      JsonBody(JDict([image_b64 |-> Img, categories |-> JStr("not-a-list")])),
      JsonBody(JDict([task_id |-> T1, image_b64 |-> Img,
                      categories |-> JList(<<JStr("Dining"), JNum(7)>>)])),
      JsonBody(JDict([task_id |-> T1, image_b64 |-> Img, categories |-> JList(<<>>)])),
      JsonBody(JDict([task_id |-> T1, image_b64 |-> Img, categories |-> Cats2])),
      JsonBody(JDict([task_id |-> T1, categories |-> Cats2])) }

Goal == JDict([name |-> JStr("car")])
Stats == JDict([food |-> JNum(3)])

AdviceBodies ==
    { BadBytes, JsonBody(JNum(1)), JsonBody(EmptyDict),
      JsonBody(JDict([task_id |-> T1, goal |-> Goal, monthly_stats |-> EmptyDict])),
      JsonBody(JDict([task_id |-> T1, monthly_stats |-> Stats])),
      JsonBody(JDict([goal |-> Goal, monthly_stats |-> Stats])),
      JsonBody(JDict([task_id |-> T1, goal |-> Goal, monthly_stats |-> Stats])) }

\* the backend's answer to one inference call: the call raises (transport error,
\* HTTP error status, unparsable envelope or content), or returns parsed content
CallFails == <<"fails", JNull>>
Content(j) == <<"content", j>>

Milk == JDict([Name |-> JStr("milk")])
Bus == JDict([Name |-> JStr("bus"), Category |-> JStr("Old")])
CatDining == JDict([Category |-> JStr("Dining")])

Items(q) == JDict([items |-> JList(q)])

ExtractContents ==
    { JList(<<>>), EmptyDict, Items(<<>>), Items(<<Milk>>), Items(<<Bus, Milk>>) }

CategorizeContents ==
    { JNull, EmptyDict, Items(<<CatDining>>), Items(<<EmptyDict, CatDining>>),
      Items(<<CatDining, JStr("x")>>) }

AdviceContents ==
    { JList(<<>>), JList(<<JStr("advice")>>), EmptyDict,
      JDict([advice |-> JList(<<JStr("save")>>)]) }

\* categorize_schema.json as found on disk
GoodTemplate ==
    JDict([type |-> JStr("object"),
           properties |-> JDict([items |-> JDict([
               type |-> JStr("array"),
               items |-> JDict([
                   type |-> JStr("object"),
                   properties |-> JDict([Category |-> JDict([
                       type |-> JStr("string"),
                       enum |-> JList(<<JStr("Old")>>)])]),
                   required |-> JList(<<JStr("Category")>>)])])]),
           required |-> JList(<<JStr("items")>>)])

NoEnumTemplate ==
    JDict([type |-> JStr("object"),
           properties |-> JDict([items |-> JDict([
               type |-> JStr("array"),
               items |-> JDict([
                   type |-> JStr("object"),
                   properties |-> JDict([Category |-> JDict([
                       type |-> JStr("string")])])])])])])

NoCategoryTemplate ==
    JDict([type |-> JStr("object"),
           properties |-> JDict([items |-> JDict([
               type |-> JStr("array"),
               items |-> JDict([
                   type |-> JStr("object"),
                   properties |-> JDict([Name |-> JDict([
                       type |-> JStr("string")])])])])])])

Templates == { GoodTemplate, NoEnumTemplate, NoCategoryTemplate }

DefaultCategories ==
    JList(<<JStr("Groceries"), JStr("Dining"), JStr("Transport"),
            JStr("Entertainment"), JStr("Other"), JStr("Unknown")>>)

\* ------------------------------------------------------------------- state
VARIABLES
    worker,           \* "ocr" or "advice": the program this process runs
    pc,               \* where the process is
    declared,         \* the queues declared on the channel, each durable
    prefetch,         \* the channel's prefetch_count, 0 while unset
    queue,            \* the task queue at the broker: messages ready for delivery,
                      \* each with the number of times it has been delivered
    produced,         \* messages the producer has put on the task queue
    unacked,          \* messages delivered to the worker and not settled yet
    tag,              \* the last delivery tag the channel has used
    task_id,          \* process_task's locals, JNull outside their scope
    categories,
    ocr_result,
    category_result,
    goal,
    final_result,
    results,          \* the results queue at the broker
    tmp_files,        \* temporary schema files on disk, each with the delivery that
                      \* created it and whether the schema was written to it
    request,          \* this delivery's categorization call: the categories, the schema
                      \* sent, and the template the schema was built from; for the
                      \* advice worker the goal sent and the backend's answer
    stages,           \* the stages of the try block this delivery has run
    ops,              \* the channel operations of this delivery's callback
    last              \* the record of the last callback that returned or raised

vars == <<worker, pc, declared, prefetch, queue, produced, unacked, tag, task_id,
          categories, ocr_result, category_result, goal, final_result, results,
          tmp_files, request, stages, ops, last>>

locals == <<task_id, categories, ocr_result, category_result, goal, final_result>>
channel == <<declared, prefetch>>
broker == <<queue, produced, unacked, tag, results>>
ghost == <<request, stages, ops, last>>

NoRequest == <<JNull, JNull, JNull>>
NoCallback == [id |-> 0, tag |-> 0, n |-> 0, malformed |-> FALSE, status |-> "", ops |-> <<>>]

TaskQueue == IF worker = "ocr" THEN OCR_QUEUE ELSE ADVICE_QUEUE
ResultsQueue == IF worker = "ocr" THEN OCR_RESULTS_QUEUE ELSE ADVICE_RESULTS_QUEUE
Bodies == IF worker = "ocr" THEN OcrBodies ELSE AdviceBodies

Init ==
    /\ worker \in {"ocr", "advice"}
    /\ pc = "connect"
    /\ declared = {}
    /\ prefetch = 0
    /\ queue = <<>>
    /\ produced = 0
    /\ unacked = <<>>
    /\ tag = 0
    /\ task_id = JNull
    /\ categories = JNull
    /\ ocr_result = JNull
    /\ category_result = JNull
    /\ goal = JNull
    /\ final_result = JNull
    /\ results = <<>>
    /\ tmp_files = <<>>
    /\ request = NoRequest
    /\ stages = <<>>
    /\ ops = <<>>
    /\ last = NoCallback

\* ----------------------------------------------------------------- startup
\* a mutant: the connection is attempted again after a failure
ConnectRetries ==
    /\ pc \in {"connect", "returned"}
    /\ pc' = "declare_tasks"
    /\ UNCHANGED <<worker, channel, broker, locals, tmp_files, ghost>>

\* pika.BlockingConnection(...) succeeds; connection.channel()
Connect ==
    /\ pc = "connect"
    /\ pc' = "declare_tasks"
    /\ UNCHANGED <<worker, channel, broker, locals, tmp_files, ghost>>

\* AMQPConnectionError: logged, and the function returns
ConnectFails ==
    /\ pc = "connect"
    /\ pc' = "returned"
    /\ UNCHANGED <<worker, channel, broker, locals, tmp_files, ghost>>

\* channel.queue_declare(queue=OCR_QUEUE, durable=True)
DeclareTasks ==
    /\ pc = "declare_tasks"
    /\ declared' = declared \cup {TaskQueue}
    /\ pc' = "declare_results"
    /\ UNCHANGED <<worker, prefetch, broker, locals, tmp_files, ghost>>

\* channel.queue_declare(queue=OCR_RESULTS_QUEUE, durable=True)
DeclareResults ==
    /\ pc = "declare_results"
    /\ declared' = declared \cup {ResultsQueue}
    /\ pc' = "qos"
    /\ UNCHANGED <<worker, prefetch, broker, locals, tmp_files, ghost>>

\* a mutant: two deliveries may be unacknowledged
SetQosTwo ==
    /\ pc = "qos"
    /\ prefetch' = 2
    /\ pc' = "consume"
    /\ UNCHANGED <<worker, declared, broker, locals, tmp_files, ghost>>

\* a mutant: the consumer is registered with no prefetch count set
SetQosSkipped ==
    /\ pc = "qos"
    /\ pc' = "consume"
    /\ UNCHANGED <<worker, channel, broker, locals, tmp_files, ghost>>

\* channel.basic_qos(prefetch_count=1)
SetQos ==
    /\ pc = "qos"
    /\ prefetch' = 1
    /\ pc' = "consume"
    /\ UNCHANGED <<worker, declared, broker, locals, tmp_files, ghost>>

\* channel.basic_consume(...); channel.start_consuming()
StartConsuming ==
    /\ pc = "consume"
    /\ pc' = "waiting"
    /\ UNCHANGED <<worker, channel, broker, locals, tmp_files, ghost>>

\* ------------------------------------------------------------------ broker
\* The bytes of a message are fixed by its producer. Nothing reads them before the
\* message is first delivered, so the model draws them at the first delivery and
\* keeps them with the message from then on.
Unread == <<"raw", "unread">>
BytesOf(msg) == IF msg.body = Unread THEN Bodies ELSE {msg.body}

\* a producer puts a task on the task queue
Produce ==
    /\ produced < MaxMsgs
    /\ queue' = Append(queue, [id |-> produced + 1, body |-> Unread, n |-> 0])
    /\ produced' = produced + 1
    /\ UNCHANGED <<worker, pc, channel, unacked, tag, results, locals, tmp_files,
                   ghost>>

\* where the process is once basic_consume has registered process_task
ConsumerPcs == {"waiting", "validate", "extract", "categorize", "generate", "nack",
                "publish", "ack"}

\* the broker sends the head of the task queue to the consumer: with a prefetch
\* count set, no more than that many messages are unacknowledged (0 is no limit)
Deliver ==
    /\ pc \in ConsumerPcs
    /\ queue # <<>>
    /\ prefetch = 0 \/ Len(unacked) < prefetch
    /\ tag < MaxDeliveries
    /\ tag' = tag + 1
    /\ \E body \in BytesOf(Head(queue)) :
          unacked' = Append(unacked, [id |-> Head(queue).id, body |-> body,
                                      n |-> Head(queue).n + 1, tag |-> tag + 1])
    /\ queue' = Tail(queue)
    /\ UNCHANGED <<worker, pc, channel, produced, results, locals, tmp_files, ghost>>

\* the delivery process_task is handling: the oldest one not settled
Current == unacked[1]

\* start_consuming calls process_task with the oldest delivery received;
\* line 85: task_id = "N/A"
Dispatch ==
    /\ pc = "waiting"
    /\ unacked # <<>>
    /\ task_id' = JStr("N/A")
    /\ pc' = "validate"
    /\ UNCHANGED <<worker, channel, broker, categories, ocr_result, category_result,
                   goal, final_result, tmp_files, ghost>>

\* a body that cannot become a task: its bytes do not decode to a JSON object, or
\* the object lacks a required field (image_b64; goal and monthly_stats)
Malformed(body) ==
    \/ body[1] # "json"
    \/ ~IsDict(body[2])
    \/ worker = "ocr" /\ ~Truthy(DictGet(body[2], "image_b64", JNull))
    \/ worker = "advice" /\ ( \/ ~Truthy(DictGet(body[2], "goal", JNull))
                              \/ ~Truthy(DictGet(body[2], "monthly_stats", JNull)) )

\* ------------------------------------------------- process_task, try block
PERSISTENT == 2

FailedResult(tid, e) ==
    JDict([task_id |-> tid, status |-> JStr("FAILED"), error |-> JStr(e)])

\* the stages of the try block that have run, each with how it ended
Passed(names) == [i \in 1..Len(names) |-> <<names[i], "ok">>]
Failed(name) == <<<<name, "raised">>>>

\* except Exception as e: the stage raised, the FAILED record is built and control
\* reaches basic_nack
Caught(tid, done, stage, e) ==
    /\ stages' = stages \o Passed(done) \o Failed(stage)
    /\ final_result' = FailedResult(tid, e)
    /\ pc' = "nack"

\* isinstance(raw_categories, list) and all(isinstance(c, str) for c in raw_categories)
IsListOfStr(raw) == IsList(raw) /\ \A i \in 1..Len(Val(raw)) : IsStr(Val(raw)[i])

\* a mutant: any list is accepted as the category list
ChooseCategoriesAnyList(raw) == IF IsList(raw) THEN raw ELSE DefaultCategories

\* a mutant: a task without a usable list takes the list left by an earlier task
ChooseCategoriesCached(raw) ==
    IF IsListOfStr(raw) THEN raw
    ELSE IF last.status = "SUCCESS" THEN Cats2 ELSE DefaultCategories

\* ocr_worker.py lines 91-95
ChooseCategories(raw) == IF IsListOfStr(raw) THEN raw ELSE DefaultCategories

\* a mutant: only the presence of the key is checked
ImageKeyMissing(task) == "image_b64" \notin DOMAIN Val(task)

\* ocr_worker.py lines 100-101: not image_b64
ImageMissing(task) == ~Truthy(DictGet(task, "image_b64", JNull))

\* ocr_worker.py lines 85-102: decode, task_id, categories, image_b64
OcrValidate ==
    /\ worker = "ocr"
    /\ pc = "validate"
    /\ LET decoded == Decode(Current.body)
           task == decoded[2]
       IN IF ~IsOk(decoded)
          THEN Caught(task_id, <<>>, "decode", decoded[2])
               /\ UNCHANGED <<task_id, categories>>
          ELSE IF ~IsDict(task)
          THEN Caught(task_id, <<>>, "decode", "AttributeError")
               /\ UNCHANGED <<task_id, categories>>
          ELSE /\ task_id' = DictGet(task, "task_id", JStr("N/A"))
               /\ categories' = ChooseCategories(DictGet(task, "categories", JNull))
               /\ IF ImageMissing(task)
                  THEN Caught(task_id', <<"decode">>, "validate", "ValueError: image_b64")
                  ELSE /\ stages' = stages \o Passed(<<"decode", "validate">>)
                       /\ pc' = "extract"
                       /\ UNCHANGED final_result
    /\ UNCHANGED <<worker, channel, broker, ocr_result, category_result, goal,
                   tmp_files, request, ops, last>>

\* a mutant: a failed extraction is taken as an empty one and the task goes on
OcrExtractGoesOn ==
    /\ worker = "ocr"
    /\ pc = "extract"
    /\ \E r \in {CallFails} \cup {Content(c) : c \in ExtractContents} :
          /\ ocr_result' = IF r = CallFails THEN EmptyDict ELSE r[2]
          /\ stages' = stages \o (IF r = CallFails THEN Failed("extract")
                                   ELSE Passed(<<"extract">>))
    /\ pc' = "categorize"
    /\ UNCHANGED <<worker, channel, broker, task_id, categories, category_result, goal,
                   final_result, tmp_files, request, ops, last>>

\* ocr_worker.py lines 105-111: extract_text_from_base64_image
OcrExtract ==
    /\ worker = "ocr"
    /\ pc = "extract"
    /\ \E r \in {CallFails} \cup {Content(c) : c \in ExtractContents} :
          IF r = CallFails
          THEN Caught(task_id, <<>>, "extract", "RequestException")
               /\ UNCHANGED ocr_result
          ELSE /\ ocr_result' = r[2]
               /\ stages' = stages \o Passed(<<"extract">>)
               /\ pc' = "categorize"
               /\ UNCHANGED final_result
    /\ UNCHANGED <<worker, channel, broker, task_id, categories, category_result, goal,
                   tmp_files, request, ops, last>>

\* lines 135-141: merge_categories and the SUCCESS record, or the exception caught
Merge(ocr, cat) ==
    LET merged == merge_categories(ocr, cat)
    IN IF ~IsOk(merged)
       THEN Caught(task_id, <<"schema", "tmpfile", "categorize">>, "merge", merged[2])
       ELSE /\ stages' = stages \o Passed(<<"schema", "tmpfile", "categorize", "merge">>)
            /\ final_result' = JDict([task_id |-> task_id, status |-> JStr("SUCCESS"),
                                      data |-> merged[2]])
            /\ pc' = "publish"

\* lines 115-119: the file NamedTemporaryFile(delete=False) has created, with
\* json.dump and the close at the end of the with block done or not
TmpFile(complete) == [tag |-> Current.tag, complete |-> complete]

\* ocr_worker.py lines 114-141: the schema variant, the temporary file,
\* categorize_items (ocr.py lines 56-84), which reads the file back, and the merge
OcrCategorize ==
    /\ worker = "ocr"
    /\ pc = "categorize"
    /\ \E template \in Templates :
       LET built == load_schema_with_enum(template, categories)
       IN IF ~IsOk(built)
          THEN /\ Caught(task_id, <<>>, "schema", built[2])
               /\ UNCHANGED <<category_result, tmp_files, request>>
          ELSE \E io \in {"written", "not-created", "write-fails"} :
               IF io # "written"
               THEN /\ Caught(task_id, <<"schema">>, "tmpfile", "OSError")
                    /\ tmp_files' = IF io = "write-fails"
                                    THEN Append(tmp_files, TmpFile(FALSE))
                                    ELSE tmp_files
                    /\ UNCHANGED <<category_result, request>>
               ELSE /\ tmp_files' = Append(tmp_files, TmpFile(TRUE))
                    /\ LET schema == categorize_schema(built[2], categories)
                       IN IF ~IsOk(schema)
                          THEN /\ Caught(task_id, <<"schema", "tmpfile">>, "categorize",
                                         schema[2])
                               /\ UNCHANGED <<category_result, request>>
                          ELSE /\ request' = <<categories, schema[2], template>>
                               /\ \E r \in {CallFails} \cup
                                           {Content(c) : c \in CategorizeContents} :
                                     IF r = CallFails
                                     THEN /\ Caught(task_id, <<"schema", "tmpfile">>,
                                                    "categorize", "RequestException")
                                          /\ UNCHANGED category_result
                                     ELSE /\ category_result' = r[2]
                                          /\ Merge(ocr_result, r[2])
    /\ UNCHANGED <<worker, channel, broker, task_id, categories, ocr_result, goal,
                   ops, last>>

\* a mutant: only the goal is required
GoalMissing(task) == ~Truthy(DictGet(task, "goal", JNull))

\* advice_worker.py lines 57-58: not goal or not monthly_stats
AdviceFieldsMissing(task) ==
    \/ ~Truthy(DictGet(task, "goal", JNull))
    \/ ~Truthy(DictGet(task, "monthly_stats", JNull))

\* advice_worker.py lines 51-58: decode, task_id, goal, monthly_stats
AdviceValidate ==
    /\ worker = "advice"
    /\ pc = "validate"
    /\ LET decoded == Decode(Current.body)
           task == decoded[2]
       IN IF ~IsOk(decoded)
          THEN Caught(task_id, <<>>, "decode", decoded[2]) /\ UNCHANGED <<task_id, goal>>
          ELSE IF ~IsDict(task)
          THEN Caught(task_id, <<>>, "decode", "AttributeError")
               /\ UNCHANGED <<task_id, goal>>
          ELSE /\ task_id' = DictGet(task, "task_id", JStr("N/A"))
               /\ goal' = DictGet(task, "goal", JNull)
               /\ IF AdviceFieldsMissing(task)
                  THEN Caught(task_id', <<"decode">>, "validate",
                              "ValueError: goal or monthly_stats")
                  ELSE /\ stages' = stages \o Passed(<<"decode", "validate">>)
                       /\ pc' = "generate"
                       /\ UNCHANGED final_result
    /\ UNCHANGED <<worker, channel, broker, categories, ocr_result, category_result,
                   tmp_files, request, ops, last>>

\* llm_utils.py lines 56-66: the call, and the check that the content has 'advice'
generate_advice(r) ==
    IF r = CallFails THEN Raise("RequestException")
    ELSE LET advice_result == r[2] IN
      CASE IsDict(advice_result) ->
             IF "advice" \in DOMAIN Val(advice_result) THEN Ok(advice_result)
             ELSE Raise("ValueError: advice")
        [] IsList(advice_result) ->
             IF \E i \in 1..Len(Val(advice_result)) : Val(advice_result)[i] = JStr("advice")
             THEN Ok(advice_result) ELSE Raise("ValueError: advice")
        [] OTHER -> Raise("TypeError")

\* advice_worker.py lines 61-78: generate_advice and the SUCCESS record
AdviceGenerate ==
    /\ worker = "advice"
    /\ pc = "generate"
    /\ \E r \in {CallFails} \cup {Content(c) : c \in AdviceContents} :
          LET advice_result == generate_advice(r)
          IN /\ request' = <<goal, r, JNull>>
             /\ IF ~IsOk(advice_result)
                THEN Caught(task_id, <<>>, "generate", advice_result[2])
                ELSE IF ~IsDict(advice_result[2])
                THEN Caught(task_id, <<"generate">>, "emit", "TypeError")
                ELSE /\ stages' = stages \o Passed(<<"generate", "emit">>)
                     /\ final_result' =
                           JDict([task_id |-> task_id, status |-> JStr("SUCCESS"),
                                  goal |-> goal,
                                  advice |-> Val(advice_result[2])["advice"]])
                     /\ pc' = "publish"
    /\ UNCHANGED <<worker, channel, broker, task_id, categories, ocr_result,
                   category_result, goal, tmp_files, ops, last>>

\* ------------------------------------------- process_task, after the try
\* seq without its element at position i
RemoveAt(seq, i) == SubSeq(seq, 1, i - 1) \o SubSeq(seq, i + 1, Len(seq))
\* seq with x inserted after its first i elements
InsertAt(seq, i, x) == SubSeq(seq, 1, i) \o <<x>> \o SubSeq(seq, i + 1, Len(seq))

Status(result) == Val(Val(result)["status"])

\* the record of a callback that has returned
Returned(op) ==
    [id |-> Current.id, tag |-> Current.tag, n |-> Current.n, malformed |-> Malformed(Current.body),
     status |-> Status(final_result), ops |-> Append(ops, op)]

\* process_task has returned: its locals, and the record of what it did, are gone
ClearLocals ==
    /\ request' = NoRequest
    /\ stages' = <<>>
    /\ ops' = <<>>
    /\ task_id' = JNull
    /\ categories' = JNull
    /\ ocr_result' = JNull
    /\ category_result' = JNull
    /\ goal' = JNull
    /\ final_result' = JNull

\* a mutant: the FAILED record is published before the nack
NackPublishesFailure ==
    /\ pc = "nack"
    /\ \E i \in 0..Len(queue) :
          queue' = InsertAt(queue, i, [id |-> Current.id, body |-> Current.body,
                                        n |-> Current.n])
    /\ results' = Append(results,
                         [queue |-> ResultsQueue, body |-> JsonBody(final_result),
                          delivery_mode |-> 2, id |-> Current.id, tag |-> Current.tag])
    /\ unacked' = RemoveAt(unacked, 1)
    /\ last' = Returned("nack")
    /\ ClearLocals
    /\ pc' = "waiting"
    /\ UNCHANGED <<worker, channel, produced, tag, tmp_files>>

\* a mutant: a message that has been delivered before is dropped, not requeued
NackDropsRedelivered ==
    /\ pc = "nack"
    /\ IF Current.n > 1
       THEN queue' = queue /\ last' = Returned("ack")
       ELSE /\ \E i \in 0..Len(queue) :
                  queue' = InsertAt(queue, i, [id |-> Current.id, body |-> Current.body,
                                                n |-> Current.n])
            /\ last' = Returned("nack")
    /\ unacked' = RemoveAt(unacked, 1)
    /\ ClearLocals
    /\ pc' = "waiting"
    /\ UNCHANGED <<worker, channel, produced, tag, results, tmp_files>>

\* a mutant: the delivery's temporary file is removed when the task has failed
NackCleansUp ==
    /\ pc = "nack"
    /\ \E i \in 0..Len(queue) :
          queue' = InsertAt(queue, i, [id |-> Current.id, body |-> Current.body,
                                        n |-> Current.n])
    /\ unacked' = RemoveAt(unacked, 1)
    /\ tmp_files' = SelectSeq(tmp_files, LAMBDA f : f.tag # Current.tag)
    /\ last' = Returned("nack")
    /\ ClearLocals
    /\ pc' = "waiting"
    /\ UNCHANGED <<worker, channel, produced, tag, results>>

\* a mutant: the nack does not requeue, the broker discards the message
NackDiscards ==
    /\ pc = "nack"
    /\ unacked' = RemoveAt(unacked, 1)
    /\ last' = Returned("nack")
    /\ ClearLocals
    /\ pc' = "waiting"
    /\ UNCHANGED <<worker, channel, queue, produced, tag, results, tmp_files>>

\* lines 150-151: ch.basic_nack(method.delivery_tag), requeue left at its default
\* (True): the broker puts the message back on the task queue; return
Nack ==
    /\ pc = "nack"
    /\ \E i \in 0..Len(queue) :
          queue' = InsertAt(queue, i, [id |-> Current.id, body |-> Current.body,
                                        n |-> Current.n])
    /\ unacked' = RemoveAt(unacked, 1)
    /\ last' = Returned("nack")
    /\ ClearLocals
    /\ pc' = "waiting"
    /\ UNCHANGED <<worker, channel, produced, tag, results, tmp_files>>

\* a mutant: the publish is skipped and the message acknowledged all the same
PublishSkipped ==
    /\ pc = "publish"
    /\ ops' = Append(ops, "publish")
    /\ pc' = "ack"
    /\ UNCHANGED <<worker, channel, broker, locals, tmp_files, request, stages, last>>

\* a mutant: the result is published with the placeholder task_id
PublishAnonymous ==
    /\ pc = "publish"
    /\ results' = Append(results,
                         [queue |-> ResultsQueue,
                          body |-> JsonBody(DictSet(final_result, "task_id", JStr("N/A"))),
                          delivery_mode |-> PERSISTENT, id |-> Current.id,
                          tag |-> Current.tag])
    /\ ops' = Append(ops, "publish")
    /\ pc' = "ack"
    /\ UNCHANGED <<worker, channel, queue, produced, unacked, tag, locals, tmp_files,
                   request, stages, last>>

\* lines 154-159: channel.basic_publish to the results queue
Publish ==
    /\ pc = "publish"
    /\ results' = Append(results,
                         [queue |-> ResultsQueue, body |-> JsonBody(final_result),
                          delivery_mode |-> PERSISTENT, id |-> Current.id,
                          tag |-> Current.tag])
    /\ ops' = Append(ops, "publish")
    /\ pc' = "ack"
    /\ UNCHANGED <<worker, channel, queue, produced, unacked, tag, locals, tmp_files,
                   request, stages, last>>

\* a mutant: the delivery is acknowledged and then also rejected
AckAlsoNacks ==
    /\ pc = "ack"
    /\ queue' = Append(queue, [id |-> Current.id, body |-> Current.body, n |-> Current.n])
    /\ unacked' = RemoveAt(unacked, 1)
    /\ last' = [Returned("ack") EXCEPT !.ops = Append(@, "nack")]
    /\ ClearLocals
    /\ pc' = "waiting"
    /\ UNCHANGED <<worker, channel, produced, tag, results, tmp_files>>

\* a mutant: the acknowledged message is put back on the task queue
AckRequeues ==
    /\ pc = "ack"
    /\ queue' = Append(queue, [id |-> Current.id, body |-> Current.body, n |-> Current.n])
    /\ unacked' = RemoveAt(unacked, 1)
    /\ last' = Returned("ack")
    /\ ClearLocals
    /\ pc' = "waiting"
    /\ UNCHANGED <<worker, channel, produced, tag, results, tmp_files>>

\* lines 161-162: ch.basic_ack(method.delivery_tag); the callback returns
Ack ==
    /\ pc = "ack"
    /\ unacked' = RemoveAt(unacked, 1)
    /\ last' = Returned("ack")
    /\ ClearLocals
    /\ pc' = "waiting"
    /\ UNCHANGED <<worker, channel, queue, produced, tag, results, tmp_files>>

Startup ==
    \/ Connect
    \/ ConnectFails
    \/ DeclareTasks
    \/ DeclareResults
    \/ SetQos
    \/ StartConsuming

Next ==
    \/ Startup
    \/ Produce
    \/ Deliver
    \/ Dispatch
    \/ OcrValidate
    \/ OcrExtract
    \/ OcrCategorize
    \/ AdviceValidate
    \/ AdviceGenerate
    \/ Nack
    \/ Publish
    \/ Ack

Spec == Init /\ [][Next]_vars

\* ------------------------------------------- the channel operations failing
\* An exception raised by basic_nack (inside the except block), by basic_publish
\* or by basic_ack (after the try) is caught nowhere: it leaves process_task,
\* start_consuming and the worker function. The connection goes down with the
\* process and the broker puts the unacknowledged delivery back on the task queue,
\* at the head, where it was taken from.
\* a mutant: the broker forgets the delivery of a consumer that has gone
RaisedForgets(op) ==
    /\ unacked' = RemoveAt(unacked, 1)
    /\ last' = Returned(op)
    /\ ops' = Append(ops, op)
    /\ pc' = "crashed"
    /\ UNCHANGED <<worker, channel, queue, produced, tag, results, locals, tmp_files,
                   request, stages>>

Raised(op) ==
    /\ queue' = <<[id |-> Current.id, body |-> Current.body, n |-> Current.n]>> \o queue
    /\ unacked' = RemoveAt(unacked, 1)
    /\ last' = Returned(op)
    /\ ops' = Append(ops, op)
    /\ pc' = "crashed"
    /\ UNCHANGED <<worker, channel, produced, tag, results, locals, tmp_files,
                   request, stages>>

\* line 150: ch.basic_nack raises
NackRaises == pc = "nack" /\ Raised("nack raises")

\* lines 154-159: channel.basic_publish raises
PublishRaises == pc = "publish" /\ Raised("publish raises")

\* line 161: ch.basic_ack raises
AckRaises == pc = "ack" /\ Raised("ack raises")

NextFault ==
    \/ Next
    \/ NackRaises
    \/ PublishRaises
    \/ AckRaises

SpecFault == Init /\ [][NextFault]_vars

\* ---------------------------------------- the worker process started again
\* lines 171-172: the process that ended on the exception is started once more
\* (by hand or by a supervisor): a new run of the worker function, with a new
\* connection and channel and no locals. Delivery tags go on counting, so that
\* the deliveries of the two runs stay apart in the records.
Restart ==
    /\ pc = "crashed"
    /\ pc' = "connect"
    /\ declared' = {}
    /\ prefetch' = 0
    /\ ClearLocals
    /\ UNCHANGED <<worker, broker, tmp_files, last>>

NextAckFails ==
    \/ Next
    \/ AckRaises
    \/ Restart

SpecAckFails == Init /\ [][NextAckFails]_vars

\* ------------------------------- several workers on the same task queue
\* NumWorkers processes run start_ocr_worker against one broker. Each has its own
\* connection and channel, so pc, prefetch, unacked, tag and final_result hold one
\* value per worker; the queues are the broker's. The try block of process_task is
\* taken as one step that ends in the SUCCESS record or in the except block.
Workers == 1..NumWorkers

InitWorkers ==
    /\ worker = "ocr"
    /\ pc = [w \in Workers |-> "connect"]
    /\ declared = {}
    /\ prefetch = [w \in Workers |-> 0]
    /\ queue = <<>>
    /\ produced = 0
    /\ unacked = [w \in Workers |-> <<>>]
    /\ tag = [w \in Workers |-> 0]
    /\ task_id = JNull
    /\ categories = JNull
    /\ ocr_result = JNull
    /\ category_result = JNull
    /\ goal = JNull
    /\ final_result = [w \in Workers |-> JNull]
    /\ results = <<>>
    /\ tmp_files = <<>>
    /\ request = NoRequest
    /\ stages = <<>>
    /\ ops = <<>>
    /\ last = NoCallback

unshared == <<task_id, categories, ocr_result, category_result, goal, tmp_files, ghost>>

\* lines 64-80 and 164-168: connect, declare both queues durable, prefetch 1,
\* register the consumer
Start(w) ==
    /\ pc[w] = "connect"
    /\ declared' = declared \cup {TaskQueue, ResultsQueue}
    /\ prefetch' = [prefetch EXCEPT ![w] = 1]
    /\ pc' = [pc EXCEPT ![w] = "waiting"]
    /\ UNCHANGED <<worker, broker, final_result, unshared>>

\* lines 72-76: AMQPConnectionError, this worker returns
StartFails(w) ==
    /\ pc[w] = "connect"
    /\ pc' = [pc EXCEPT ![w] = "returned"]
    /\ UNCHANGED <<worker, channel, broker, final_result, unshared>>

\* a mutant: the broker hands the message to the consumer and keeps it queued
DeliverCopyTo(w) ==
    /\ pc[w] \in ConsumerPcs
    /\ queue # <<>>
    /\ prefetch[w] = 0 \/ Len(unacked[w]) < prefetch[w]
    /\ tag[w] < MaxDeliveries
    /\ tag' = [tag EXCEPT ![w] = tag[w] + 1]
    /\ unacked' = [unacked EXCEPT ![w] =
                      Append(unacked[w], [id |-> Head(queue).id, body |-> Unread,
                                          n |-> Head(queue).n + 1, tag |-> tag[w] + 1])]
    /\ queue' = Append(Tail(queue), [Head(queue) EXCEPT !.n = Head(queue).n + 1])
    /\ UNCHANGED <<worker, pc, channel, produced, results, final_result, unshared>>

\* competing consumers: the broker sends the head of the task queue to one
\* consumer whose channel has room under its prefetch count
DeliverTo(w) ==
    /\ pc[w] \in ConsumerPcs
    /\ queue # <<>>
    /\ prefetch[w] = 0 \/ Len(unacked[w]) < prefetch[w]
    /\ tag[w] < MaxDeliveries
    /\ tag' = [tag EXCEPT ![w] = tag[w] + 1]
    /\ unacked' = [unacked EXCEPT ![w] =
                      Append(unacked[w], [id |-> Head(queue).id, body |-> Unread,
                                          n |-> Head(queue).n + 1, tag |-> tag[w] + 1])]
    /\ queue' = Tail(queue)
    /\ UNCHANGED <<worker, pc, channel, produced, results, final_result, unshared>>

\* lines 82-149: process_task is called with the worker's oldest delivery and its
\* try block ends with the SUCCESS record built, or in the except block with the
\* FAILED one
Process(w) ==
    /\ pc[w] = "waiting"
    /\ unacked[w] # <<>>
    /\ \E status \in {"SUCCESS", "FAILED"} :
          /\ final_result' = [final_result EXCEPT ![w] =
                                 JDict([task_id |-> JStr("N/A"), status |-> JStr(status)])]
          /\ pc' = [pc EXCEPT ![w] = IF status = "SUCCESS" THEN "publish" ELSE "nack"]
    /\ UNCHANGED <<worker, channel, broker, unshared>>

\* lines 150-151: basic_nack, requeue by default; return
NackBy(w) ==
    /\ pc[w] = "nack"
    /\ \E i \in 0..Len(queue) :
          queue' = InsertAt(queue, i, [id |-> unacked[w][1].id, body |-> Unread,
                                        n |-> unacked[w][1].n])
    /\ unacked' = [unacked EXCEPT ![w] = RemoveAt(unacked[w], 1)]
    /\ final_result' = [final_result EXCEPT ![w] = JNull]
    /\ pc' = [pc EXCEPT ![w] = "waiting"]
    /\ UNCHANGED <<worker, channel, produced, tag, results, unshared>>

\* lines 154-159: basic_publish to the results queue
PublishBy(w) ==
    /\ pc[w] = "publish"
    /\ results' = Append(results,
                         [queue |-> ResultsQueue, body |-> JsonBody(final_result[w]),
                          delivery_mode |-> PERSISTENT, id |-> unacked[w][1].id,
                          tag |-> unacked[w][1].tag, n |-> unacked[w][1].n,
                          worker |-> w])
    /\ pc' = [pc EXCEPT ![w] = "ack"]
    /\ UNCHANGED <<worker, channel, queue, produced, unacked, tag, final_result,
                   unshared>>

\* lines 161-162: basic_ack; return
AckBy(w) ==
    /\ pc[w] = "ack"
    /\ unacked' = [unacked EXCEPT ![w] = RemoveAt(unacked[w], 1)]
    /\ final_result' = [final_result EXCEPT ![w] = JNull]
    /\ pc' = [pc EXCEPT ![w] = "waiting"]
    /\ UNCHANGED <<worker, channel, queue, produced, tag, results, unshared>>

NextWorkers ==
    \/ Produce
    \/ \E w \in Workers :
          \/ Start(w)
          \/ StartFails(w)
          \/ DeliverTo(w)
          \/ Process(w)
          \/ NackBy(w)
          \/ PublishBy(w)
          \/ AckBy(w)

SpecWorkers == InitWorkers /\ [][NextWorkers]_vars

\* ------------------------------------- the pure functions on bounded inputs
Seqs(S, n) == UNION {[1..k -> S] : k \in 0..n}

Tea == JDict([Name |-> JStr("tea"), Price |-> JNum(3)])
CatOther == JDict([Category |-> JStr("Other")])

\* extraction and categorization results of up to MaxItems items
MergeExtractions == {Items(q) : q \in Seqs({Milk, Bus, Tea}, MaxItems)} \cup {EmptyDict}
MergeCategorizations ==
    {Items(q) : q \in Seqs({CatDining, CatOther, EmptyDict}, MaxItems)} \cup {EmptyDict}

\* category lists of up to MaxItems names, repetitions included
CategoryLists ==
    {JList(q) : q \in Seqs({JStr("Dining"), JStr("Other"), JStr("Old")}, MaxItems)}
        \cup {DefaultCategories}

InitPure ==
    /\ worker = "none"
    /\ pc \in {"merge", "build"}
    /\ declared = {}
    /\ prefetch = 0
    /\ queue = <<>>
    /\ produced = 0
    /\ unacked = <<>>
    /\ tag = 0
    /\ task_id = JNull
    /\ IF pc = "merge"
       THEN /\ ocr_result \in MergeExtractions
            /\ category_result \in MergeCategorizations
            /\ categories = JNull
            /\ request = NoRequest
       ELSE /\ ocr_result = JNull
            /\ category_result = JNull
            /\ categories \in CategoryLists
            /\ \E template \in Templates : request = <<JNull, JNull, template>>
    /\ goal = JNull
    /\ final_result = JNull
    /\ results = <<>>
    /\ tmp_files = <<>>
    /\ stages = <<>>
    /\ ops = <<>>
    /\ last = NoCallback

\* final_items = merge_categories(ocr_result, category_result)
ApplyMerge ==
    /\ pc = "merge"
    /\ final_result' = merge_categories(ocr_result, category_result)
    /\ pc' = "merged"
    /\ UNCHANGED <<worker, channel, broker, task_id, categories, ocr_result,
                   category_result, goal, tmp_files, ghost>>

\* categorization_schema_json = load_schema_with_enum(categories)
ApplyBuild ==
    /\ pc = "build"
    /\ LET built == load_schema_with_enum(request[3], categories)
       IN request' = <<categories, built, request[3]>>
    /\ pc' = IF IsOk(request'[2]) THEN "built" ELSE "build-raised"
    /\ UNCHANGED <<worker, channel, broker, locals, tmp_files, stages, ops, last>>

\* categorize_items injects the enum again into the schema it reads back
ApplyInject ==
    /\ pc = "built"
    /\ final_result' = categorize_schema(request[2][2], categories)
    /\ pc' = "injected"
    /\ UNCHANGED <<worker, channel, broker, task_id, categories, ocr_result,
                   category_result, goal, tmp_files, ghost>>

NextPure ==
    \/ ApplyMerge
    \/ ApplyBuild
    \/ ApplyInject

SpecPure == InitPure /\ [][NextPure]_vars

\* ------------------------------------------------------------------ claims
InCallback == pc \in {"validate", "extract", "categorize", "generate", "nack",
                      "publish", "ack"}
Consuming == pc = "waiting" \/ InCallback

\* the results published for delivery tag t, and for message id
PublishedForTag(t) == {i \in DOMAIN results : results[i].tag = t}
PublishedFor(id) == {i \in DOMAIN results : results[i].id = id}

\* the messages the broker still holds, and the ones it has been told to forget
Held == {queue[i].id : i \in DOMAIN queue} \cup {unacked[i].id : i \in DOMAIN unacked}
Acknowledged == (1..produced) \ Held

StageNames == {stages[i][1] : i \in DOMAIN stages}
StageRaised == \E i \in DOMAIN stages : stages[i][2] = "raised"
Settled(op) == \E i \in DOMAIN last.ops : last.ops[i] = op

\* C1: a delivery that reaches SUCCESS publishes exactly one persistent result to
\* the results queue and then acknowledges: the publish precedes the ack, and no
\* message is acknowledged while its result has not been published.
C1_PublishThenAck ==
    /\ pc = "publish" =>
          /\ Status(final_result) = "SUCCESS"
          /\ ops = <<>>
          /\ PublishedForTag(Current.tag) = {}
    /\ pc = "ack" =>
          /\ Status(final_result) = "SUCCESS"
          /\ ops = <<"publish">>
          /\ PublishedForTag(Current.tag) = {Len(results)}
          /\ results[Len(results)].id = Current.id
          /\ results[Len(results)].queue = ResultsQueue
          /\ results[Len(results)].body = JsonBody(final_result)
          /\ results[Len(results)].delivery_mode = 2
    /\ (last.status = "SUCCESS" \/ Settled("ack")) => last.ops = <<"publish", "ack">>
    /\ \A id \in Acknowledged : PublishedFor(id) # {}
    /\ \A i \in DOMAIN results : results[i].delivery_mode = 2

C1_Witness ==
    /\ last.ops = <<"publish", "ack">>
    /\ last.id \in Acknowledged
    /\ Cardinality(PublishedFor(last.id)) = 1

\* C2: a delivery in which any stage of the try block fails publishes nothing, is
\* negatively acknowledged exactly once, and leaves the worker consuming, ready
\* for the next delivery.
C2_FailureNacksOnce ==
    /\ (InCallback /\ StageRaised) =>
          /\ pc = "nack"
          /\ ops = <<>>
          /\ PublishedForTag(Current.tag) = {}
    /\ pc = "nack" => Status(final_result) = "FAILED"
    /\ (InCallback /\ pc \in {"publish", "ack"}) => ~StageRaised
    /\ last.status = "FAILED" =>
          /\ last.ops = <<"nack">>
          /\ PublishedForTag(last.tag) = {}
          /\ Consuming
          /\ last.id \in {queue[i].id : i \in DOMAIN queue} \cup
                         {unacked[i].id : i \in DOMAIN unacked}
    /\ (last.ops = <<"nack">> /\ pc = "waiting" /\ tag < MaxDeliveries) =>
          (ENABLED Deliver \/ ENABLED Dispatch)

C2_Witness ==
    /\ last.status = "FAILED"
    /\ last.ops = <<"nack">>
    /\ pc = "validate"
    /\ results = <<>>

\* the items of a backend response, a missing key counting as no items
ItemsOf(j) == DictGet(j, "items", JList(<<>>))
AllDicts(list) == \A i \in 1..Len(Val(list)) : IsDict(Val(list)[i])

\* an Extraction Result: an object whose items are a list of objects
WellFormedExtraction(o) ==
    IsDict(o) /\ "items" \in DOMAIN Val(o) /\ IsList(ItemsOf(o)) /\ AllDicts(ItemsOf(o))

\* a Category Assignment for extraction o: an object whose items are a list of
\* objects aligned one to one with o's items
WellFormedCategorization(c, o) ==
    /\ IsDict(c) /\ "items" \in DOMAIN Val(c) /\ IsList(ItemsOf(c)) /\ AllDicts(ItemsOf(c))
    /\ Len(Val(ItemsOf(c))) = Len(Val(ItemsOf(o)))

BothAnswered == worker = "ocr" /\ InCallback /\ "merge" \in StageNames

\* C3: a valid OCR message whose extraction and categorization responses are both
\* well-formed gets exactly one result published for the delivery, with status
\* SUCCESS and as many data.items as the extraction response has items.
C3_ValidTaskPublishesOnce ==
    /\ ( /\ BothAnswered
         /\ WellFormedExtraction(ocr_result)
         /\ WellFormedCategorization(category_result, ocr_result) ) =>
          /\ pc \in {"publish", "ack"}
          /\ Status(final_result) = "SUCCESS"
          /\ Len(Val(ItemsOf(Val(final_result)["data"]))) = Len(Val(ItemsOf(ocr_result)))
          /\ pc = "publish" => PublishedForTag(Current.tag) = {}
          /\ pc = "ack" =>
                /\ PublishedForTag(Current.tag) = {Len(results)}
                /\ results[Len(results)].body = JsonBody(final_result)
    /\ (worker = "ocr" /\ last.status = "SUCCESS") =>
          /\ Cardinality(PublishedForTag(last.tag)) = 1
          /\ \A i \in PublishedForTag(last.tag) :
                Status(results[i].body[2]) = "SUCCESS"

C3_Witness ==
    /\ pc = "ack"
    /\ BothAnswered
    /\ WellFormedExtraction(ocr_result)
    /\ WellFormedCategorization(category_result, ocr_result)
    /\ Len(Val(ItemsOf(ocr_result))) = 2
    /\ Len(Val(ItemsOf(Val(results[Len(results)].body[2])["data"]))) = 2

\* C4: when the categorization response has another number of items than the
\* extraction response, the merge raises the cardinality error, the task is
\* FAILED, nothing is published and the delivery goes to the nack; a merged
\* record always has as many items as both responses.
C4_MismatchFails ==
    /\ ( /\ BothAnswered
         /\ IsDict(ocr_result) /\ IsDict(category_result)
         /\ HasLen(ItemsOf(ocr_result)) /\ HasLen(ItemsOf(category_result))
         /\ PyLen(ItemsOf(ocr_result)) # PyLen(ItemsOf(category_result)) ) =>
          /\ pc = "nack"
          /\ stages[Len(stages)] = <<"merge", "raised">>
          /\ final_result = FailedResult(task_id, "ValueError")
          /\ PublishedForTag(Current.tag) = {}
    /\ (worker = "ocr" /\ pc \in {"publish", "ack"}) =>
          /\ PyLen(ItemsOf(Val(final_result)["data"])) = PyLen(ItemsOf(ocr_result))
          /\ PyLen(ItemsOf(Val(final_result)["data"])) = PyLen(ItemsOf(category_result))

C4_Witness ==
    /\ BothAnswered
    /\ pc = "nack"
    /\ IsDict(ocr_result) /\ IsDict(category_result)
    /\ PyLen(ItemsOf(ocr_result)) = 1
    /\ PyLen(ItemsOf(category_result)) = 2
    /\ final_result = FailedResult(task_id, "ValueError")

\* the task a delivered body decodes to, and its categories field
TaskDecoded == Current.body[1] = "json" /\ Tag(Current.body[2]) = "dict"
RawCategories == DictGet(Current.body[2], "categories", JNull)
SixDefaults ==
    JList(<<JStr("Groceries"), JStr("Dining"), JStr("Transport"),
            JStr("Entertainment"), JStr("Other"), JStr("Unknown")>>)
\* the categories the task is to be processed with
Expected(raw) ==
    CASE Tag(raw) # "list" -> SixDefaults
      [] Tag(raw) = "list" /\ (\E i \in DOMAIN Val(raw) : Tag(Val(raw)[i]) # "str")
           -> SixDefaults
      [] OTHER -> raw
SentEnum == Val(GetPath(request[2], EnumPath))["enum"]

\* C7: a categories field that is absent or of the wrong type does not reject the
\* task, the six default categories being used for the categorization schema and
\* prompt; a list of strings is used as it is, in order.
C7_CategoriesOrDefault ==
    (worker = "ocr" /\ InCallback /\ TaskDecoded /\ pc # "validate") =>
        /\ categories = Expected(RawCategories)
        /\ request # NoRequest =>
              /\ request[1] = Expected(RawCategories)
              /\ SentEnum = Expected(RawCategories)
        /\ ~Malformed(Current.body) => <<"validate", "ok">> \in {stages[i] : i \in DOMAIN stages}

C7_Witness ==
    /\ worker = "ocr" /\ InCallback /\ TaskDecoded
    /\ RawCategories = JStr("not-a-list")
    /\ request # NoRequest
    /\ SentEnum = SixDefaults
    /\ pc = "publish"

\* C8: the category list handed to the schema builder and to the categorization
\* call is never empty, an empty categories list being replaced by the defaults.
C8_CategoriesNonEmpty ==
    /\ (worker = "ocr" /\ pc = "categorize") => Len(Val(categories)) > 0
    /\ (worker = "ocr" /\ request # NoRequest) =>
          (Len(Val(request[1])) > 0 /\ Len(Val(SentEnum)) > 0)

\* a task object whose image_b64 is missing or empty
NoImage(body) ==
    /\ body[1] = "json" /\ Tag(body[2]) = "dict"
    /\ \/ "image_b64" \notin DOMAIN Val(body[2])
       \/ Val(body[2])["image_b64"] \in {JStr(""), JNull}

\* the messages the broker holds whose bytes have been read
Read == {queue[i] : i \in {j \in DOMAIN queue : queue[j].n > 0}} \cup
        {[id |-> unacked[i].id, body |-> unacked[i].body, n |-> unacked[i].n] :
            i \in DOMAIN unacked}

\* C9: an OCR task whose image_b64 is missing or empty is rejected at once: no
\* inference call is made for it, nothing is ever published for it, and the
\* delivery is negatively acknowledged.
C9_NoImageRejected ==
    /\ (worker = "ocr" /\ InCallback /\ pc # "validate" /\ NoImage(Current.body)) =>
          /\ pc = "nack"
          /\ stages = <<<<"decode", "ok">>, <<"validate", "raised">>>>
          /\ request = NoRequest
          /\ Status(final_result) = "FAILED"
    /\ worker = "ocr" =>
          \A msg \in Read : NoImage(msg.body) =>
              /\ PublishedFor(msg.id) = {}
              /\ (last.id = msg.id /\ pc = "waiting") => last.ops = <<"nack">>

C9_Witness ==
    /\ worker = "ocr" /\ pc = "waiting"
    /\ last.ops = <<"nack">>
    /\ \E msg \in Read : msg.id = last.id /\ NoImage(msg.body)
                           /\ DictGet(msg.body[2], "image_b64", JNull) = JStr("")

\* C10: a malformed message (undecodable body, or required fields missing) is
\* classified FAILED on every delivery, with one nack and no publish each time,
\* however often it was delivered before and whatever was processed in between.
C10_FailureIdempotent ==
    /\ last.malformed =>
          /\ last.status = "FAILED"
          /\ last.ops = <<"nack">>
          /\ PublishedFor(last.id) = {}
    /\ \A msg \in Read : Malformed(msg.body) => PublishedFor(msg.id) = {}
    /\ (InCallback /\ pc # "validate" /\ Malformed(Current.body)) =>
          /\ pc = "nack"
          /\ Status(final_result) = "FAILED"
          /\ StageNames \subseteq {"decode", "validate"}
          /\ ops = <<>>

C10_Witness ==
    /\ last.malformed
    /\ last.n = 2
    /\ last.status = "FAILED"
    /\ last.ops = <<"nack">>
    /\ \E msg \in Read : msg.id = last.id /\ msg.n = 2

\* a and b are dicts that agree everywhere except at a[p1]...[pn][key]
RECURSIVE EqualExcept(_, _, _, _)
EqualExcept(a, b, path, key) ==
    IF path = <<>>
    THEN /\ (DOMAIN Val(a)) \ {key} = (DOMAIN Val(b)) \ {key}
         /\ \A k \in (DOMAIN Val(a)) \ {key} : Val(a)[k] = Val(b)[k]
    ELSE /\ DOMAIN Val(a) = DOMAIN Val(b)
         /\ \A k \in (DOMAIN Val(a)) \ {Head(path)} : Val(a)[k] = Val(b)[k]
         /\ EqualExcept(Val(a)[Head(path)], Val(b)[Head(path)], Tail(path), key)

MergedItems == Val(ItemsOf(final_result[2]))
OcrItems == Val(ItemsOf(ocr_result))
CatItems == Val(ItemsOf(category_result))

\* C5: on inputs of equal length merge_categories succeeds and is positional: item
\* i of the result has the Category of categorization item i ("Unknown" when that
\* item has none), overwriting any Category of extraction item i, and otherwise
\* the fields of extraction item i; length and order are those of the extraction.
C5_MergePositional ==
    (pc = "merged" /\ Len(OcrItems) = Len(CatItems)) =>
        /\ final_result[1] = "ok"
        /\ DOMAIN Val(final_result[2]) = {"items"}
        /\ Len(MergedItems) = Len(OcrItems)
        /\ \A i \in 1..Len(OcrItems) :
              LET merged == Val(MergedItems[i])
                  ocr_item == Val(OcrItems[i])
                  cat_item == Val(CatItems[i])
              IN /\ DOMAIN merged = (DOMAIN ocr_item) \cup {"Category"}
                 /\ merged["Category"] = IF "Category" \in DOMAIN cat_item
                                         THEN cat_item["Category"]
                                         ELSE JStr("Unknown")
                 /\ \A f \in (DOMAIN ocr_item) \ {"Category"} : merged[f] = ocr_item[f]

C5_Witness ==
    /\ pc = "merged"
    /\ OcrItems = <<Bus, Milk>>
    /\ CatItems = <<EmptyDict, CatDining>>
    /\ final_result[1] = "ok"
    /\ Val(MergedItems[1])["Category"] = JStr("Unknown")
    /\ Val(MergedItems[2])["Category"] = JStr("Dining")

\* C6: load_schema_with_enum returns the template with only the Category enum
\* changed, the enum being the supplied list as it is (order and repetitions
\* kept); it depends on the template and the list alone; and the injection that
\* categorize_items repeats with the same list changes nothing.
C6_SchemaExact ==
    /\ pc \in {"built", "injected"} =>
          /\ EqualExcept(request[2][2], request[3], EnumPath, "enum")
          /\ DictGet(GetPath(request[2][2], EnumPath), "enum", JNull) = categories
          /\ request[1] = categories
    /\ pc = "injected" => final_result = <<"ok", request[2][2]>>
    /\ pc = "build-raised" => ~CanIndex(request[3], EnumPath)
    /\ (worker = "none" /\ pc \in {"built", "injected", "build-raised"}) =>
          (CanIndex(request[3], EnumPath) <=> request[2][1] = "ok")

C6_Witness ==
    /\ pc = "injected"
    /\ request[3] = GoodTemplate
    /\ categories = JList(<<JStr("Other"), JStr("Other")>>)
    /\ DictGet(GetPath(final_result[2], EnumPath), "enum", JNull) =
          JList(<<JStr("Other"), JStr("Other")>>)

\* C11: with the channel working, whatever the inference failures, malformed
\* responses and mismatches over the deliveries and redeliveries of a task, at most
\* one result is ever published for it, an acknowledged task has exactly one, and a
\* task with a result is acknowledged, the ack being the very next step if it is not.
C11_ExactlyOnceEffective ==
    \A id \in 1..produced :
        /\ Cardinality(PublishedFor(id)) <= 1
        /\ id \in Acknowledged => Cardinality(PublishedFor(id)) = 1
        /\ (PublishedFor(id) # {} /\ id \notin Acknowledged) =>
              (pc = "ack" /\ Current.id = id)

C11_Witness ==
    /\ last.n = 2
    /\ last.ops = <<"publish", "ack">>
    /\ last.id \in Acknowledged
    /\ Cardinality(PublishedFor(last.id)) = 1

\* C12: once the worker consumes, no failure while handling a delivery ends the
\* consumption loop, a failure of the publish, the ack or the nack included: from
\* a state where the worker consumes, every step leads to one where it consumes.
C12_LoopSurvivesFailures == [][Consuming => Consuming']_vars

\* C13: when the connection cannot be established the worker has returned after
\* that one attempt: no queue is declared, no prefetch set, no consumer registered,
\* nothing is ever delivered, and no step of the worker, another connection
\* attempt included, can follow.
C13_ConnectFailureReturns ==
    pc = "returned" =>
        /\ declared = {}
        /\ prefetch = 0
        /\ tag = 0
        /\ unacked = <<>>
        /\ results = <<>>
        /\ last = NoCallback
        /\ ~ENABLED Connect
        /\ ~ENABLED ConnectFails
        /\ ~ENABLED (DeclareTasks \/ DeclareResults \/ SetQos \/ StartConsuming)
        /\ ~ENABLED (Deliver \/ Dispatch)

C13_Witness ==
    /\ pc = "returned"
    /\ Len(queue) = MaxMsgs
    /\ declared = {}

\* C14: the worker holds at most one unacknowledged message; the delivery it is
\* processing is the latest one the broker has sent, and every earlier delivery
\* has been acked or nacked before it; the results on the results queue are in
\* the delivery order of their tasks.
C14_OneAtATimeInOrder ==
    /\ Len(unacked) <= 1
    /\ InCallback => (Len(unacked) = 1 /\ Current.tag = tag)
    /\ unacked # <<>> => (unacked[1].tag = tag /\ last.tag = tag - 1)
    /\ unacked = <<>> => last.tag = tag
    /\ \A i \in DOMAIN results : \A j \in DOMAIN results :
          i < j => results[i].tag < results[j].tag

C14_Witness ==
    /\ Len(results) = 2
    /\ results[1].tag = 1
    /\ results[2].tag = 2
    /\ results[1].id # results[2].id

\* C17: a delivery is received or handled, and the consumer registered, only with
\* the connection established, the task queue and the results queue both declared
\* durable and the prefetch count set to 1.
C17_ReadyBeforeConsuming ==
    (pc = "consume" \/ Consuming \/ tag > 0 \/ unacked # <<>>) =>
        /\ declared = {TaskQueue, ResultsQueue}
        /\ prefetch = 1
        /\ pc \notin {"connect", "returned"}

C17_Witness ==
    /\ pc = "validate"
    /\ tag = 1
    /\ declared = {TaskQueue, ResultsQueue}
    /\ prefetch = 1

\* a field that is missing, null or empty
Empties == {JNull, JStr(""), EmptyDict, JList(<<>>)}
NoGoalOrStats(body) ==
    /\ body[1] = "json"
    /\ IsDict(body[2])
    /\ \/ DictGet(body[2], "goal", JNull) \in Empties
       \/ DictGet(body[2], "monthly_stats", JNull) \in Empties
CompleteAdviceTask(body) == body[1] = "json" /\ IsDict(body[2]) /\ ~NoGoalOrStats(body)
Calls(name) == Cardinality({i \in DOMAIN stages : stages[i][1] = name})
HasAdvice(r) == r[1] = "content" /\ IsDict(r[2]) /\ "advice" \in DOMAIN Val(r[2])

\* C15: the advice worker validates, infers, emits. A task with goal or
\* monthly_stats missing or empty makes no inference call and ends in nack with
\* nothing published; any other task makes exactly one call; when the call
\* answers with an advice field, one SUCCESS message with the task's task_id and
\* goal and the answer's advice is published and then the message is acked; when
\* the call fails or the answer has no advice field, the delivery ends in nack
\* with nothing published.
C15_AdviceValidateInferEmit ==
    (worker = "advice" /\ InCallback) =>
        /\ Calls("generate") <= 1
        /\ (pc # "validate" /\ NoGoalOrStats(Current.body)) =>
              /\ pc = "nack"
              /\ Calls("generate") = 0
              /\ request = NoRequest
              /\ ops = <<>>
              /\ PublishedForTag(Current.tag) = {}
        /\ pc = "generate" => (Calls("generate") = 0 /\ CompleteAdviceTask(Current.body))
        /\ (pc \notin {"validate", "generate"} /\ CompleteAdviceTask(Current.body)) =>
              /\ Calls("generate") = 1
              /\ request[1] = Val(Current.body[2])["goal"]
              /\ IF HasAdvice(request[2])
                 THEN /\ pc \in {"publish", "ack"}
                      /\ final_result =
                            JDict([task_id |-> DictGet(Current.body[2], "task_id", JStr("N/A")),
                                   status |-> JStr("SUCCESS"),
                                   goal |-> Val(Current.body[2])["goal"],
                                   advice |-> Val(request[2][2])["advice"]])
                      /\ pc = "publish" => ops = <<>> /\ PublishedForTag(Current.tag) = {}
                      /\ pc = "ack" =>
                            /\ ops = <<"publish">>
                            /\ PublishedForTag(Current.tag) = {Len(results)}
                            /\ results[Len(results)].body = JsonBody(final_result)
                 ELSE /\ pc = "nack"
                      /\ ops = <<>>
                      /\ PublishedForTag(Current.tag) = {}
        /\ pc \in {"publish", "ack"} => CompleteAdviceTask(Current.body)

C15_Witness ==
    /\ worker = "advice"
    /\ pc = "ack"
    /\ HasAdvice(request[2])
    /\ DictGet(Current.body[2], "task_id", JNull) = JNull
    /\ Len(results) = 1

StageOrder == <<"decode", "validate", "extract", "schema", "tmpfile", "categorize", "merge">>
AllPassed(k) == stages = [i \in 1..k |-> <<StageOrder[i], "ok">>]

\* C16: for each delivery the OCR worker runs its stages in the one fixed order,
\* each at most once; a stage that fails is the last one run, and the task is then
\* FAILED; extraction runs only after validation passed, categorization only
\* after extraction passed, and SUCCESS is reached only with every stage passed
\* and a record holding every item of the extraction; a task has one outcome and
\* at most one result, a complete one, is published for a delivery.
C16_StagesInOrderOnce ==
    /\ (worker = "ocr" /\ InCallback) =>
          /\ Len(stages) <= Len(StageOrder)
          /\ \A i \in DOMAIN stages :
                /\ stages[i][1] = StageOrder[i]
                /\ i < Len(stages) => stages[i][2] = "ok"
          /\ pc = "validate" => (stages = <<>> /\ final_result = JNull)
          /\ pc = "extract" => (AllPassed(2) /\ final_result = JNull)
          /\ pc = "categorize" => (AllPassed(3) /\ final_result = JNull)
          /\ pc = "nack" =>
                /\ stages # <<>>
                /\ stages[Len(stages)][2] = "raised"
                /\ Status(final_result) = "FAILED"
                /\ DOMAIN Val(final_result) = {"task_id", "status", "error"}
          /\ pc \in {"publish", "ack"} =>
                /\ AllPassed(7)
                /\ Status(final_result) = "SUCCESS"
                /\ Val(final_result)["data"] = merge_categories(ocr_result, category_result)[2]
                /\ PyLen(ItemsOf(Val(final_result)["data"])) = PyLen(ItemsOf(ocr_result))
    /\ worker = "ocr" =>
          \A i \in DOMAIN results :
              /\ Status(results[i].body[2]) = "SUCCESS"
              /\ "data" \in DOMAIN Val(results[i].body[2])
              /\ PublishedForTag(results[i].tag) = {i}

C16_Witness ==
    /\ worker = "ocr"
    /\ pc = "nack"
    /\ Len(stages) = 6
    /\ stages[6] = <<"categorize", "raised">>
    /\ ocr_result = Items(<<Bus, Milk>>)

\* the task_id a delivery's record carries
TaskIdOf(body) == DictGet(body[2], "task_id", JStr("N/A"))

\* C18: nothing of a task outlives its callback, and what a delivery is processed
\* with comes from that delivery alone: every local is unset between callbacks and
\* fresh when one starts; the category list is the one of the delivery's own
\* message (or the defaults), the schema sent is built from the template and that
\* list, and the record published is made of the message's task_id and the
\* answers given to this delivery.
C18_StatelessAcrossTasks ==
    /\ pc = "waiting" =>
          /\ <<task_id, categories, ocr_result, category_result, goal, final_result>>
                = <<JNull, JNull, JNull, JNull, JNull, JNull>>
          /\ request = NoRequest
          /\ stages = <<>>
    /\ pc = "validate" =>
          /\ task_id = JStr("N/A")
          /\ <<categories, ocr_result, category_result, goal, final_result>>
                = <<JNull, JNull, JNull, JNull, JNull>>
          /\ request = NoRequest
    /\ (worker = "ocr" /\ InCallback /\ TaskDecoded /\ pc # "validate") =>
          /\ task_id = TaskIdOf(Current.body)
          /\ categories = Expected(RawCategories)
          /\ request # NoRequest =>
                /\ request[1] = Expected(RawCategories)
                /\ EqualExcept(request[2], request[3], EnumPath, "enum")
                /\ SentEnum = Expected(RawCategories)
          /\ pc \in {"publish", "ack"} =>
                final_result = JDict([task_id |-> TaskIdOf(Current.body),
                                      status |-> JStr("SUCCESS"),
                                      data |-> merge_categories(ocr_result,
                                                                category_result)[2]])
    /\ (worker = "advice" /\ pc \in {"publish", "ack"}) =>
          final_result = JDict([task_id |-> TaskIdOf(Current.body),
                                status |-> JStr("SUCCESS"),
                                goal |-> Val(Current.body[2])["goal"],
                                advice |-> Val(request[2][2])["advice"]])

C18_Witness ==
    /\ worker = "ocr"
    /\ pc = "publish"
    /\ tag = 2
    /\ Len(results) = 1
    /\ Val(results[1].body[2])["task_id"] = T1
    /\ results[1].id # Current.id
    /\ RawCategories = JStr("not-a-list")
    /\ task_id = JStr("N/A")
    /\ SentEnum = SixDefaults

\* the messages on the task queue with the given id
Queued(id) == {i \in DOMAIN queue : queue[i].id = id}

\* C19: a failed delivery is nacked with requeue: the message is back on the task
\* queue, with its bytes and its delivery count, and is delivered again whatever
\* that count is; a malformed message is thus never acknowledged and never leaves
\* the broker, and no result is ever published for it.
C19_MalformedRequeuedForever ==
    /\ (last.ops = <<"nack">> /\ pc = "waiting" /\ unacked = <<>>) =>
          /\ Cardinality(Queued(last.id)) = 1
          /\ \A i \in Queued(last.id) : queue[i].n = last.n /\ queue[i].body # Unread
    /\ last.malformed =>
          /\ last.ops = <<"nack">>
          /\ last.id \in Held
          /\ last.id \notin Acknowledged
          /\ PublishedFor(last.id) = {}
    /\ \A msg \in Read : Malformed(msg.body) => PublishedFor(msg.id) = {}
    /\ \A id \in Acknowledged : PublishedFor(id) # {}
    /\ (pc = "waiting" /\ unacked = <<>> /\ queue # <<>> /\ tag < MaxDeliveries) =>
          ENABLED Deliver

C19_Witness ==
    /\ last.malformed
    /\ last.n = MaxDeliveries
    /\ pc = "waiting"
    /\ \E i \in Queued(last.id) : queue[i].n = MaxDeliveries /\ Malformed(queue[i].body)
    /\ results = <<>>

\* the workers holding message id unacknowledged, and the messages in flight
HoldersOf(id) == {w \in Workers : \E i \in DOMAIN unacked[w] : unacked[w][i].id = id}
InFlight == {id \in 1..produced : HoldersOf(id) # {}}
AcknowledgedMsgs == {id \in 1..produced : HoldersOf(id) = {} /\ Queued(id) = {}}

\* C20: with several workers consuming the same task queue, in every interleaving
\* a message is in flight at one worker at most, and is then not on the queue; a
\* worker holds at most one unacknowledged message; an acknowledged message has
\* exactly one published result, and no message has two.
C20_CompetingConsumers ==
    /\ \A w \in Workers : Len(unacked[w]) <= 1
    /\ \A id \in 1..produced :
          /\ Cardinality(HoldersOf(id)) + Cardinality(Queued(id)) <= 1
          /\ Cardinality(PublishedFor(id)) <= 1
          /\ id \in AcknowledgedMsgs => Cardinality(PublishedFor(id)) = 1
          /\ (PublishedFor(id) # {} /\ id \notin AcknowledgedMsgs) =>
                \E w \in HoldersOf(id) : pc[w] = "ack"

\* two workers each hold a message, and the results of two messages, each
\* delivered once, are on the results queue in the reverse of their delivery order
C20_Witness ==
    /\ Len(results) = 2
    /\ results[1].id = 2 /\ results[1].n = 1
    /\ results[2].id = 1 /\ results[2].n = 1
    /\ results[1].worker # results[2].worker
    /\ AcknowledgedMsgs = {1, 2}

\* the task_id in a published result
PublishedTaskId(i) == Val(results[i].body[2])["task_id"]

\* C21: when basic_publish has succeeded and basic_ack then fails, the result is
\* on the results queue, and the inbound message, not acknowledged, is back on
\* the task queue with its bytes, to be delivered again; the results published
\* for one message all carry the same task_id; and an acknowledged message always
\* has a result.
C21_AckFailureKeepsResult ==
    /\ pc = "crashed" =>
          /\ last.ops = <<"publish", "ack raises">>
          /\ last.status = "SUCCESS"
          /\ PublishedForTag(last.tag) # {}
          /\ last.id \notin Acknowledged
          /\ Cardinality(Queued(last.id)) = 1
          /\ \A i \in Queued(last.id) : queue[i].n = last.n /\ queue[i].body # Unread
    /\ \A id \in Acknowledged : PublishedFor(id) # {}
    /\ \A id \in 1..produced : PublishedFor(id) # {} => id \in Acknowledged \cup Held
    /\ \A i \in DOMAIN results : \A j \in DOMAIN results :
          results[i].id = results[j].id => PublishedTaskId(i) = PublishedTaskId(j)
    /\ (pc = "waiting" /\ unacked = <<>> /\ queue # <<>> /\ tag < MaxDeliveries) =>
          ENABLED Deliver

\* the ack of a first delivery failed, the message was delivered again to the
\* worker started anew, and two results with its task_id are on the results queue
C21_Witness ==
    /\ Len(results) = 2
    /\ results[1].id = results[2].id
    /\ results[1].tag # results[2].tag
    /\ PublishedTaskId(1) = T1
    /\ PublishedTaskId(2) = T1
    /\ results[1].id \in Acknowledged
    /\ last.ops = <<"publish", "ack">>

\* C22: every message on a results queue has status SUCCESS and the task_id of
\* the inbound message it was made from, "N/A" when that message has none (which
\* does not fail the task); a published message is never changed afterwards; the
\* FAILED record of the error path is on no results queue.
C22_OnlySuccessPublished ==
    /\ [](/\ \A i \in DOMAIN results :
                /\ Status(results[i].body[2]) = "SUCCESS"
                /\ "error" \notin DOMAIN Val(results[i].body[2])
          /\ pc = "ack" =>
                /\ results[Len(results)].id = Current.id
                /\ PublishedTaskId(Len(results)) = TaskIdOf(Current.body)
          /\ pc = "nack" =>
                /\ Status(final_result) = "FAILED"
                /\ PublishedForTag(Current.tag) = {}
          /\ last.status = "FAILED" => PublishedForTag(last.tag) = {})
    /\ [][/\ Len(results') >= Len(results)
          /\ \A i \in DOMAIN results : results'[i] = results[i]]_vars

C22_Witness ==
    /\ pc = "waiting"
    /\ Len(results) = 2
    /\ PublishedTaskId(1) = JStr("N/A")
    /\ PublishedTaskId(2) = T1
    /\ last.ops = <<"publish", "ack">>

\* the settling operations among the channel operations of a callback
Settlings(o) == {i \in DOMAIN o : o[i] \in {"ack", "nack"}}

\* C23: with the channel operations succeeding, every call of process_task
\* settles its delivery exactly once, by an ack or by a nack, as its last
\* operation; the delivery settled is the one the call was made for, and no
\* other delivery is ever settled.
C23_SettledExactlyOnce ==
    /\ [](/\ InCallback =>
                /\ Len(unacked) = 1
                /\ Settlings(ops) = {}
                /\ last.tag = Current.tag - 1
          /\ last # NoCallback =>
                /\ Cardinality(Settlings(last.ops)) = 1
                /\ Settlings(last.ops) = {Len(last.ops)}
                /\ last.tag \notin {unacked[i].tag : i \in DOMAIN unacked}
          /\ (pc = "waiting" /\ unacked = <<>>) => last.tag = tag)
    /\ [][unacked' # unacked =>
             \/ /\ unacked = <<>>
                /\ Len(unacked') = 1
                /\ pc' = pc
             \/ /\ InCallback
                /\ pc \in {"ack", "nack"}
                /\ pc' = "waiting"
                /\ unacked' = <<>>
                /\ last'.tag = Current.tag
                /\ last'.id = Current.id
                /\ last'.ops = Append(ops, pc)]_vars

C23_Witness ==
    /\ last.ops = <<"nack">>
    /\ last.tag = 1
    /\ pc = "ack"
    /\ Current.tag = 2
    /\ ops = <<"publish">>

\* the temporary files the delivery with the given tag has created
FilesOf(t) == {i \in DOMAIN tmp_files : tmp_files[i].tag = t}
\* categorize_items has been called in the delivery being handled
CategorizeCalled == \E i \in DOMAIN stages : stages[i][1] = "categorize"

\* C24 as stated: the temporary schema files left behind are as many as the
\* deliveries that reached categorization, each such delivery having written one:
\* every file on disk is the complete schema file of a delivery that went on to
\* the categorization call, and there is one per such delivery.
C24_FilesEqualCategorizations ==
    /\ \A i \in DOMAIN tmp_files :
          /\ tmp_files[i].complete
          /\ FilesOf(tmp_files[i].tag) = {i}
    /\ (worker = "ocr" /\ InCallback /\ CategorizeCalled) =>
          Cardinality(FilesOf(Current.tag)) = 1

\* C24, amended: a delivery for which categorize_items is called has written
\* exactly one temporary schema file before the call; a delivery creates one file
\* at most; no step ever deletes or changes a file, whether the task succeeds or
\* fails; a file whose writing failed is left behind as well, by a delivery that
\* failed before the categorization call.
C24_TempFilesNeverDeleted ==
    /\ [](/\ \A i \in DOMAIN tmp_files : FilesOf(tmp_files[i].tag) = {i}
          /\ (worker = "ocr" /\ InCallback /\ CategorizeCalled) =>
                /\ Cardinality(FilesOf(Current.tag)) = 1
                /\ \A i \in FilesOf(Current.tag) : tmp_files[i].complete
          /\ (worker = "ocr" /\ InCallback) =>
                \A i \in FilesOf(Current.tag) :
                    ~tmp_files[i].complete =>
                        (pc = "nack" /\ stages[Len(stages)] = <<"tmpfile", "raised">>)
          /\ worker = "advice" => tmp_files = <<>>)
    /\ [][/\ Len(tmp_files') \in {Len(tmp_files), Len(tmp_files) + 1}
          /\ \A i \in DOMAIN tmp_files : tmp_files'[i] = tmp_files[i]
          /\ Len(tmp_files') > Len(tmp_files) =>
                (pc = "categorize" /\ tmp_files'[Len(tmp_files')].tag = Current.tag)]_vars

\* two deliveries have each left a file: the first failed while writing it, the
\* second wrote it, called categorize_items and was published
C24_Witness ==
    /\ Len(tmp_files) = 2
    /\ ~tmp_files[1].complete
    /\ tmp_files[2].complete
    /\ tmp_files[1].tag = 1
    /\ tmp_files[2].tag = 2
    /\ last.ops = <<"publish", "ack">>
    /\ pc = "waiting"

\* a backend result with no items: the key is missing, or its list is empty
NoItems(j) ==
    /\ Tag(j) = "dict"
    /\ "items" \notin DOMAIN Val(j) \/ Val(j)["items"] = JList(<<>>)
SomeItems(j) ==
    /\ Tag(j) = "dict"
    /\ "items" \in DOMAIN Val(j)
    /\ Tag(Val(j)["items"]) = "list"
    /\ Len(Val(Val(j)["items"])) > 0

\* C25: a missing items key counts as an empty list of items. When the
\* extraction and the categorization result both have no items the merge gives
\* an empty items list and the task is published as SUCCESS with data.items
\* empty; when one has no items and the other has some, the merge fails on the
\* length mismatch and the task is FAILED.
C25_MissingItemsIsEmpty ==
    (worker = "ocr" /\ InCallback /\ "merge" \in StageNames) =>
        /\ (NoItems(ocr_result) /\ NoItems(category_result)) =>
              /\ pc \in {"publish", "ack"}
              /\ final_result = JDict([task_id |-> TaskIdOf(Current.body),
                                       status |-> JStr("SUCCESS"),
                                       data |-> JDict([items |-> JList(<<>>)])])
              /\ pc = "ack" => results[Len(results)].body = JsonBody(final_result)
        /\ ( \/ NoItems(ocr_result) /\ SomeItems(category_result)
             \/ SomeItems(ocr_result) /\ NoItems(category_result) ) =>
              /\ pc = "nack"
              /\ stages[Len(stages)] = <<"merge", "raised">>
              /\ final_result = FailedResult(TaskIdOf(Current.body), "ValueError")
              /\ PublishedForTag(Current.tag) = {}

\* both results came without an items key and the empty record is published
C25_Witness ==
    /\ worker = "ocr"
    /\ pc = "ack"
    /\ ocr_result = EmptyDict
    /\ category_result = EmptyDict
    /\ Val(results[Len(results)].body[2])["data"] = JDict([items |-> JList(<<>>)])

====
